---------------------------- MODULE Spec2Model ----------------------------
(***************************************************************************)
(* Model of src/main.py: the per-user session router (handle_message), the *)
(* four mini-game engines, the inline-button router (handle_callback) and  *)
(* the store accessors they call.                                          *)
(*                                                                         *)
(* Conventions.                                                            *)
(*  - A Python str is a sequence of one-character tokens.  TLA+ strings    *)
(*    are ASCII, so every Cyrillic character is written as one Latin       *)
(*    token: "Меню" is <<"M","e","n","yu">>, 'ь' is "soft", 'ъ' is "hard". *)
(*  - A table is a function of the user id.  game_progress has at most one *)
(*    row per user (PRIMARY KEY user_id).  game_results and                *)
(*    weather_requests are only ever INSERTed into and never read by a     *)
(*    handler: each is kept as the rows the update handled last inserted.  *)
(*  - A JSON object (game_progress.state) is a record with the set of its  *)
(*    keys; a key that is absent holds a fixed filler value.               *)
(*  - One step is one update handled to completion.  Under Spec the store  *)
(*    and the chat transport answer every call.                            *)
(***************************************************************************)
EXTENDS Integers, Sequences, FiniteSets, TLC

(***************************************************************************)
(* Bounds of the model.                                                    *)
(***************************************************************************)
\* achievement awards a run may grant per user
MaxAwards == 2
\* wrong guesses counted in one Number-Guessing round
MaxAttempts == 2
\* rows of game_results a run that keeps them may insert
MaxRows == 2
\* scoring turns of one session in the runs of two users
MaxPairTurns == 1

Users == {1, 2}

\* the user whose updates are handled
Player == CHOOSE u \in Users : \A v \in Users : u <= v

(***************************************************************************)
(* Python str operations.                                                  *)
(***************************************************************************)
UpperCase == {"M", "D", "V", "K", "B"}

\* str.lower() on one character
LowerChar(c) ==
    CASE c = "M" -> "m"
      [] c = "D" -> "d"
      [] c = "V" -> "v"
      [] c = "K" -> "k"
      [] c = "B" -> "b"
      [] OTHER -> c

Lower(t) == [i \in 1..Len(t) |-> LowerChar(t[i])]

RECURSIVE LStrip(_)
LStrip(t) == IF t # <<>> /\ Head(t) = " " THEN LStrip(Tail(t)) ELSE t

RECURSIVE RStrip(_)
RStrip(t) ==
    IF t # <<>> /\ t[Len(t)] = " " THEN RStrip(SubSeq(t, 1, Len(t) - 1)) ELSE t

Strip(t) == RStrip(LStrip(t))

InSeq(x, s) == \E i \in 1..Len(s) : s[i] = x

Digits == {"0", "1", "2", "3", "4", "5", "6", "7", "8", "9"}

DigitVal(c) ==
    CASE c = "0" -> 0 [] c = "1" -> 1 [] c = "2" -> 2 [] c = "3" -> 3
      [] c = "4" -> 4 [] c = "5" -> 5 [] c = "6" -> 6 [] c = "7" -> 7
      [] c = "8" -> 8 [] c = "9" -> 9

RECURSIVE DigitsVal(_)
DigitsVal(t) ==
    IF t = <<>> THEN 0
    ELSE 10 * DigitsVal(SubSeq(t, 1, Len(t) - 1)) + DigitVal(t[Len(t)])

\* int(s): surrounding whitespace is dropped, an optional sign, then digits;
\* anything else raises ValueError (ok = FALSE).
ParseInt(t) ==
    LET s == Strip(t)
        signed == s # <<>> /\ Head(s) \in {"-", "+"}
        body == IF signed THEN Tail(s) ELSE s
        ok == body # <<>> /\ \A i \in 1..Len(body) : body[i] \in Digits
    IN  [ok |-> ok,
         val |-> IF ~ok THEN 0
                 ELSE IF signed /\ Head(s) = "-" THEN 0 - DigitsVal(body)
                 ELSE DigitsVal(body)]

(***************************************************************************)
(* Module-level data of main.py.                                           *)
(***************************************************************************)
\* "Меню"
MenuText == <<"M", "e", "n", "yu">>

\* the letters the valid cities are chained over
ChainLetters ==
    <<"a", "b", "c", "d", "e", "f", "g", "h", "i", "j",
      "k", "l", "m", "n", "o", "p", "q", "r", "s", "t">>

ChainCity(i) ==
    LET from == ChainLetters[i]
        to == ChainLetters[(i % Len(ChainLetters)) + 1]
    IN  IF i = 3 THEN <<from, to, "soft">>
        ELSE IF i = 8 THEN <<from, to, "soft", "hard">>
        ELSE <<from, to>>

\* "москва"
Moskva == <<"m", "o", "s", "k", "v", "a">>
\* a city no other city can follow: nothing starts with "z"
DeadEnd == <<"a", "z">>

\* cities.txt, each line stripped and lower-cased: twenty cities that chain
\* into a ring, "москва", and a dead end
VALID_CITIES ==
    {ChainCity(i) : i \in 1..Len(ChainLetters)} \cup {Moskva, DeadEnd}

QuestLen == 3
RiddleCount == 3

\* LOGIC_RIDDLES[i]["answer"], i = 0, 1, 2: "8", "время", "карта"
RiddleAnswer(i) ==
    CASE i = 0 -> <<"8">>
      [] i = 1 -> <<"v", "r", "e", "m", "ya">>
      [] i = 2 -> <<"k", "a", "r", "t", "a">>

\* "вперёд", "да"
QuestAccepted == {<<"v", "p", "e", "r", "yo", "d">>, <<"d", "a">>}

TargetMin == 1
TargetMax == 100
ScoreStep == 10
AwardScore == 100
AwardStars == 10

AchievementOf(game) ==
    CASE game = "Cities" -> "Master gorodov"
      [] game = "Guess" -> "Master ugadyvaniya"
      [] game = "Quest" -> "Master priklyucheniy"
      [] game = "Logic" -> "Master logiki"

Games == {"Cities", "Guess", "Quest", "Logic"}

(***************************************************************************)
(* The texts a user sends and the button payloads a user presses.          *)
(***************************************************************************)
NumberTexts ==
    {<<"1">>, <<"4", "2">>, <<" ", "4", "2", " ">>, <<"5", "0">>,
     <<"1", "0", "0">>, <<"-", "5">>, <<"4", " ", "2">>}

\* the cities the user names: every other city of the ring, "москва" (also
\* capitalised, with blanks around it), the dead end, and a city not listed
CityTexts ==
    {ChainCity(2 * i - 1) : i \in 1..(Len(ChainLetters) \div 2)}
    \cup {Moskva, <<" ", "M", "o", "s", "k", "v", "a", " ">>, DeadEnd,
          <<"p", "a", "r", "i", "zh">>}

Texts ==
    CityTexts
    \cup NumberTexts
    \cup QuestAccepted
    \cup {RiddleAnswer(i) : i \in 0..(RiddleCount - 1)}
    \cup {MenuText,
          <<"m", "e", "n", "yu">>,
          <<"D", "a">>,
          <<" ", "d", "a">>,
          <<"n", "e", "t">>,
          <<" ", "V", "r", "e", "m", "ya">>}

\* text.strip().lower(), text.lower() and int(text.strip()) of every text,
\* computed once
Converted ==
    [t \in Texts |->
        [strip_lower |-> Lower(Strip(t)), lower |-> Lower(t), int |-> ParseInt(t)]]

\* the city of a save_city_<city> button: segments between underscores
SavePayloads == {<<"save", "city", "new", "york">>}


(***************************************************************************)
(* State.                                                                  *)
(***************************************************************************)
VARIABLES
    user_data,            \* context.user_data of each user: the two flags
    game_progress,        \* table game_progress: at most one row per user
    user_achievements,    \* table user_achievements: set of names per user
    user_stars,           \* table user_stars: at most one row per user
    favorite_cities,      \* table favorite_cities: set of cities per user
    game_results,         \* table game_results: its rows in insertion order,
                          \* kept only when a run starts with kept = TRUE
    new_game_results,     \* rows the last update inserted into game_results
    new_weather_requests, \* rows the last update inserted into weather_requests
    out,                  \* what the text turn handled last sent to the chat
    session,              \* history: scoring turns and awards since the
                          \* user's last game-start press
    call                  \* the store accessor call in progress, when the
                          \* steps inside an accessor are followed

vars ==
    <<user_data, game_progress, user_achievements, user_stars, favorite_cities,
      game_results, new_game_results, new_weather_requests, out, session, call>>

tables == <<game_progress, user_achievements, user_stars, favorite_cities>>

(***************************************************************************)
(* JSON objects: game_progress.state.                                      *)
(***************************************************************************)
EmptyState ==
    [keys |-> {}, last_city |-> <<>>, used_cities |-> <<>>,
     target |-> 0, attempts |-> 0, stage |-> 0, riddle_idx |-> 0]

\* state.get(k, default)
Get(state, k, default) == IF k \in state.keys THEN state[k] ELSE default

\* state[k] = v
Put(state, k, v) == [state EXCEPT !.keys = @ \cup {k}, ![k] = v]

NoRow == [present |-> FALSE, game_name |-> "None", score |-> 0, state |-> EmptyState]

(***************************************************************************)
(* Store accessors, as functions of the table they read or write.          *)
(***************************************************************************)
\* INSERT ... ON CONFLICT (user_id) DO UPDATE SET game_name, score = 0, state = '{}'
\* faulty variant of start_game: the upsert leaves the score of an existing row
start_game_KeepsScore(gp, u, game) ==
    [gp EXCEPT ![u] = [present |-> TRUE, game_name |-> game,
                       score |-> IF gp[u].present THEN gp[u].score ELSE 0,
                       state |-> EmptyState]]

\* faulty variant of start_game: an existing row is left as it is
start_game_KeepsRow(gp, u, game) ==
    IF gp[u].present THEN gp
    ELSE [gp EXCEPT ![u] = [present |-> TRUE, game_name |-> game,
                            score |-> 0, state |-> EmptyState]]

start_game(gp, u, game) ==
    [gp EXCEPT ![u] =
        [present |-> TRUE, game_name |-> game, score |-> 0, state |-> EmptyState]]

\* UPDATE game_progress SET score, state WHERE user_id: no row, no change
\* faulty variant of update_game_state: the UPDATE has no WHERE clause
update_game_state_NoWhere(gp, u, score, state) ==
    [v \in Users |->
        IF gp[v].present THEN [gp[v] EXCEPT !.score = score, !.state = state]
        ELSE gp[v]]

update_game_state(gp, u, score, state) ==
    IF gp[u].present
    THEN [gp EXCEPT ![u].score = score, ![u].state = state]
    ELSE gp

\* SELECT game_name, score, state; (None, 0, '{}') when there is no row
get_game_state(gp, u) ==
    IF gp[u].present
    THEN [game_name |-> gp[u].game_name, score |-> gp[u].score, state |-> gp[u].state]
    ELSE [game_name |-> "None", score |-> 0, state |-> EmptyState]

\* INSERT INTO user_achievements ... ON CONFLICT DO NOTHING
award_achievement(ua, u, achievement) == [ua EXCEPT ![u] = @ \cup {achievement}]

\* INSERT INTO user_stars ... ON CONFLICT (user_id) DO UPDATE SET stars = stars + amount
update_stars(us, u, amount) ==
    IF us[u].present
    THEN [us EXCEPT ![u].stars = @ + amount]
    ELSE [us EXCEPT ![u] = [present |-> TRUE, stars |-> amount]]

\* INSERT INTO game_results (user_id, game_name, score)
\* faulty variant of save_game_result: the insert replaces the user's last row
save_game_result_Upsert(u, game, score) ==
    LET row == [user_id |-> u, game_name |-> game, score |-> score]
        mine == {i \in 1..Len(game_results.rows) : game_results.rows[i].user_id = u}
    IN  /\ new_game_results' =
               [v \in Users |-> IF v = u THEN <<[game_name |-> game, score |-> score]>>
                                ELSE <<>>]
        /\ game_results' =
               IF ~game_results.kept THEN game_results
               ELSE IF mine = {} THEN [game_results EXCEPT !.rows = Append(@, row)]
               ELSE [game_results EXCEPT
                        !.rows[CHOOSE i \in mine : \A j \in mine : j <= i] = row]

save_game_result(u, game, score) ==
    /\ new_game_results' =
           [v \in Users |-> IF v = u THEN <<[game_name |-> game, score |-> score]>>
                            ELSE <<>>]
    /\ game_results' =
           IF game_results.kept
           THEN [game_results EXCEPT
                    !.rows = Append(@, [user_id |-> u, game_name |-> game,
                                        score |-> score])]
           ELSE game_results

\* INSERT INTO weather_requests (user_id, city)
log_weather_request(u) ==
    new_weather_requests' = [v \in Users |-> IF v = u THEN 1 ELSE 0]

\* INSERT INTO favorite_cities ... ON CONFLICT DO NOTHING
save_favorite_city(fc, u, city) == [fc EXCEPT ![u] = @ \cup {city}]

\* an update that inserts nothing into game_results / weather_requests
NoGameResult ==
    /\ new_game_results' = [v \in Users |-> <<>>]
    /\ UNCHANGED game_results
NoWeatherRequest == new_weather_requests' = [v \in Users |-> 0]

(***************************************************************************)
(* Initial state: empty tables, empty user_data.                           *)
(***************************************************************************)
NoFlags == [awaiting_city |-> "absent", awaiting_game |-> "absent"]

\* no accessor call is in progress
IdleCall ==
    [fn |-> "none", user |-> Player, pc |-> "idle", conn |-> FALSE, cursor |-> FALSE,
     failed |-> FALSE, ret |-> "unset", exc |-> "none"]

\* the state after init_db and before the first update, game_results aside
Fresh ==
    /\ call = IdleCall
    /\ user_data = [u \in Users |-> NoFlags]
    /\ game_progress = [u \in Users |-> NoRow]
    /\ user_achievements = [u \in Users |-> {}]
    /\ user_stars = [u \in Users |-> [present |-> FALSE, stars |-> 0]]
    /\ favorite_cities = [u \in Users |-> {}]
    /\ new_game_results = [u \in Users |-> <<>>]
    /\ new_weather_requests = [u \in Users |-> 0]
    /\ out = <<>>
    /\ session = [u \in Users |-> [scoring |-> 0, awards |-> 0]]

Init == Fresh /\ game_results = [kept |-> FALSE, rows |-> <<>>]

\* the same, with the rows of game_results kept
InitResults == Fresh /\ game_results = [kept |-> TRUE, rows |-> <<>>]

\* context.user_data[key] = value
SetFlag(u, key, value) == user_data' = [user_data EXCEPT ![u][key] = value]

\* history bookkeeping of one turn
Note(u, scored, awarded) ==
    session' = [session EXCEPT ![u] =
                   [scoring |-> @.scoring + scored, awards |-> @.awards + awarded]]

\* a turn that only replies
ReplyOnly(tag) ==
    /\ out' = <<tag>>
    /\ NoGameResult /\ NoWeatherRequest
    /\ UNCHANGED <<user_data, tables, session>>

\* '... сейчас не играете': reply, awaiting_game = False, return
NotPlaying(u, tag) ==
    /\ out' = <<tag>>
    /\ SetFlag(u, "awaiting_game", "False")
    /\ NoGameResult /\ NoWeatherRequest
    /\ UNCHANGED <<tables, session>>

(***************************************************************************)
(* handle_message: City-Chain ("Cities").                                  *)
(***************************************************************************)
Signs == {"soft", "hard"}

\* while s and s[-1] in 'ьъ': s = s[:-1]
RECURSIVE StripSigns(_)
StripSigns(s) ==
    IF s # <<>> /\ s[Len(s)] \in Signs
    THEN StripSigns(SubSeq(s, 1, Len(s) - 1))
    ELSE s

\* the letter the user's city must start with ('' when nothing is left)
LastLetter(last_city) ==
    LET s == StripSigns(last_city) IN IF s # <<>> THEN s[Len(s)] ELSE ""

\* the letter the bot's city must start with
NextLetter(city) ==
    LET s == StripSigns(city) IN IF s # <<>> THEN s[Len(s)] ELSE ""

\* c.startswith(letter)
StartsWith(c, letter) == letter = "" \/ (c # <<>> /\ c[1] = letter)

\* faulty variant of AvailableCities: the cities already used are not left out
AvailableCities_IgnoresUsed(next_letter, used_cities) ==
    {c \in VALID_CITIES : StartsWith(c, next_letter)}

\* [c for c in VALID_CITIES if c.startswith(next_letter) and c not in used_cities]
AvailableCities(next_letter, used_cities) ==
    {c \in VALID_CITIES : StartsWith(c, next_letter) /\ ~InSeq(c, used_cities)}

\* the user's city is taken and the bot answers with bot_city
\* faulty variant of CitiesBotReply: the bot's city is not added to used_cities
CitiesBotReply_ForgetsBotCity(u, score, state, used_cities, bot_city) ==
    LET state2 == Put(Put(state, "last_city", bot_city), "used_cities", used_cities)
    IN  /\ game_progress' = update_game_state(game_progress, u, score, state2)
        /\ save_game_result(u, "Cities", score)
        /\ NoWeatherRequest
        /\ out' = <<"reply:cities_next">>
        /\ Note(u, 1, 0)
        /\ UNCHANGED <<user_achievements, user_stars, user_data, favorite_cities>>

CitiesBotReply(u, score, state, used_cities, bot_city) ==
    LET used2 == Append(used_cities, bot_city)
        state2 == Put(Put(state, "last_city", bot_city), "used_cities", used2)
    IN  /\ game_progress' = update_game_state(game_progress, u, score, state2)
        /\ save_game_result(u, "Cities", score)
        /\ NoWeatherRequest
        /\ UNCHANGED favorite_cities
        /\ IF score >= AwardScore
           THEN /\ user_achievements' =
                       award_achievement(user_achievements, u, AchievementOf("Cities"))
                /\ out' = <<"sticker", "reply:cities_master">>
                /\ user_stars' = update_stars(user_stars, u, AwardStars)
                /\ SetFlag(u, "awaiting_game", "False")
                /\ Note(u, 1, 1)
           ELSE /\ out' = <<"reply:cities_next">>
                /\ Note(u, 1, 0)
                /\ UNCHANGED <<user_achievements, user_stars, user_data>>

\* the user's city is taken and no city is left for the bot: the user wins
\* faulty variant of CitiesUserWins: the flag is left set after the win
CitiesUserWins_KeepsPlaying(u, score) ==
    /\ save_game_result(u, "Cities", score)
    /\ NoWeatherRequest
    /\ out' = <<"reply:cities_won">>
    /\ Note(u, 1, 0)
    /\ UNCHANGED <<user_data, tables>>

CitiesUserWins(u, score) ==
    /\ save_game_result(u, "Cities", score)
    /\ NoWeatherRequest
    /\ UNCHANGED <<game_progress, favorite_cities>>
    /\ IF score >= AwardScore
       THEN /\ user_achievements' =
                   award_achievement(user_achievements, u, AchievementOf("Cities"))
            /\ out' = <<"reply:cities_won", "sticker">>
            /\ user_stars' = update_stars(user_stars, u, AwardStars)
            /\ Note(u, 1, 1)
       ELSE /\ out' = <<"reply:cities_won">>
            /\ Note(u, 1, 0)
            /\ UNCHANGED <<user_achievements, user_stars>>
    /\ SetFlag(u, "awaiting_game", "False")

\* faulty variant of CitiesReject: a rejected city closes the game
CitiesReject_ClosesGame(u, tag) ==
    /\ out' = <<tag>>
    /\ NoGameResult /\ NoWeatherRequest
    /\ SetFlag(u, "awaiting_game", "False")
    /\ UNCHANGED <<tables, session>>

\* a rejected city: reply_text and return
CitiesReject(u, tag) == ReplyOnly(tag)

CitiesTurn(u, text) ==
    LET city == Converted[text].strip_lower
        got == get_game_state(game_progress, u)
        last_city == Get(got.state, "last_city", <<>>)
        used_cities == Get(got.state, "used_cities", <<>>)
        last_letter == LastLetter(last_city)
    IN  IF got.game_name # "Cities" THEN NotPlaying(u, "reply:not_playing_cities")
        ELSE IF city \notin VALID_CITIES THEN CitiesReject(u, "reply:cities_invalid")
        ELSE IF InSeq(city, used_cities) THEN CitiesReject(u, "reply:cities_used")
        ELSE IF last_city # <<>> /\ city[1] # last_letter
             THEN CitiesReject(u, "reply:cities_wrong_letter")
        ELSE LET score == got.score + ScoreStep
                 used2 == Append(used_cities, city)
                 available_cities == AvailableCities(NextLetter(city), used2)
             IN  IF available_cities # {}
                 THEN \E bot_city \in available_cities :
                          CitiesBotReply(u, score, got.state, used2, bot_city)
                 ELSE CitiesUserWins(u, score)

(***************************************************************************)
(* handle_message: Number-Guessing ("Guess").                              *)
(***************************************************************************)
\* random.randint(1, 100): the draws the model follows, the two ends of the
\* range and one number inside it
TargetDraws == {t \in {TargetMin, 42, TargetMax} : TargetMin <= t /\ t <= TargetMax}

\* faulty variant of GuessWin: the game stays open after the award
GuessWin_KeepsPlaying(u, score, state, attempts) ==
    LET state2 == Put(state, "attempts", 0)
    IN  /\ save_game_result(u, "Guess", score)
        /\ NoWeatherRequest
        /\ UNCHANGED <<favorite_cities, user_data>>
        /\ game_progress' = update_game_state(game_progress, u, score, state2)
        /\ IF score >= AwardScore
           THEN /\ user_achievements' =
                       award_achievement(user_achievements, u, AchievementOf("Guess"))
                /\ out' = <<"sticker", "reply:guess_master">>
                /\ user_stars' = update_stars(user_stars, u, AwardStars)
                /\ Note(u, 1, 1)
           ELSE /\ out' = <<"reply:guess_won_new_number">>
                /\ Note(u, 1, 0)
                /\ UNCHANGED <<user_achievements, user_stars>>

GuessWin(u, score, state, attempts) ==
    LET state2 == Put(state, "attempts", attempts)
    IN  /\ save_game_result(u, "Guess", score)
        /\ NoWeatherRequest
        /\ UNCHANGED favorite_cities
        /\ IF score >= AwardScore
           THEN /\ game_progress' = update_game_state(game_progress, u, score, state2)
                /\ user_achievements' =
                       award_achievement(user_achievements, u, AchievementOf("Guess"))
                /\ out' = <<"sticker", "reply:guess_master">>
                /\ user_stars' = update_stars(user_stars, u, AwardStars)
                /\ SetFlag(u, "awaiting_game", "False")
                /\ Note(u, 1, 1)
           ELSE /\ \E target \in TargetDraws :
                       game_progress' =
                           update_game_state(
                               update_game_state(game_progress, u, score, state2),
                               u, score,
                               Put(Put(state2, "target", target), "attempts", 0))
                /\ out' = <<"reply:guess_won_new_number">>
                /\ Note(u, 1, 0)
                /\ UNCHANGED <<user_achievements, user_stars, user_data>>

\* faulty variant of GuessMiss: the attempt is not counted
GuessMiss_NotCounted(u, score, state, attempts, tag) ==
    /\ game_progress' = update_game_state(game_progress, u, score, state)
    /\ out' = <<tag>>
    /\ NoGameResult /\ NoWeatherRequest
    /\ UNCHANGED <<user_data, user_achievements, user_stars, favorite_cities, session>>

GuessMiss(u, score, state, attempts, tag) ==
    /\ game_progress' =
           update_game_state(game_progress, u, score, Put(state, "attempts", attempts))
    /\ out' = <<tag>>
    /\ NoGameResult /\ NoWeatherRequest
    /\ UNCHANGED <<user_data, user_achievements, user_stars, favorite_cities, session>>


\* faulty variant of GuessFormatHint: the malformed guess is counted as an attempt
GuessFormatHint_CountsAttempt(u) ==
    /\ out' = <<"reply:guess_format_hint">>
    /\ NoGameResult /\ NoWeatherRequest
    /\ game_progress' =
           update_game_state(game_progress, u, game_progress[u].score,
                             Put(game_progress[u].state, "attempts",
                                 game_progress[u].state.attempts + 1))
    /\ UNCHANGED <<user_data, user_achievements, user_stars, favorite_cities, session>>

\* except ValueError: the format hint
GuessFormatHint(u) == ReplyOnly("reply:guess_format_hint")

GuessTurn(u, text) ==
    LET parsed == Converted[text].int
        guess == parsed.val
        got == get_game_state(game_progress, u)
        target == Get(got.state, "target", 0)
        attempts == Get(got.state, "attempts", 0) + 1
    IN  IF ~parsed.ok THEN GuessFormatHint(u)
        ELSE IF got.game_name # "Guess" THEN NotPlaying(u, "reply:not_playing_guess")
        ELSE IF "target" \notin got.state.keys THEN ReplyOnly("error:TypeError")
        ELSE IF guess = target THEN GuessWin(u, got.score + ScoreStep, got.state, attempts)
        ELSE IF guess < target
             THEN GuessMiss(u, got.score, got.state, attempts, "reply:number_is_larger")
        ELSE GuessMiss(u, got.score, got.state, attempts, "reply:number_is_smaller")

(***************************************************************************)
(* handle_message: Quest.                                                  *)
(***************************************************************************)
\* faulty variant of QuestAdvance: the last stage does not close the quest
QuestAdvance_NeverEnds(u, score, state, stage) ==
    /\ game_progress' =
           update_game_state(game_progress, u, score, Put(state, "stage", stage + 1))
    /\ save_game_result(u, "Quest", score)
    /\ NoWeatherRequest
    /\ out' = <<"reply:quest_stage">>
    /\ Note(u, 1, 0)
    /\ UNCHANGED <<user_achievements, user_stars, user_data, favorite_cities>>

\* faulty variant of QuestAdvance: completing the quest awards at any score
QuestAdvance_AwardsOnCompletion(u, score, state, stage) ==
    /\ game_progress' =
           update_game_state(game_progress, u, score, Put(state, "stage", stage + 1))
    /\ save_game_result(u, "Quest", score)
    /\ NoWeatherRequest
    /\ UNCHANGED favorite_cities
    /\ IF stage + 1 >= QuestLen
       THEN /\ user_achievements' =
                   award_achievement(user_achievements, u, AchievementOf("Quest"))
            /\ out' = <<"sticker", "reply:quest_master">>
            /\ user_stars' = update_stars(user_stars, u, AwardStars)
            /\ Note(u, 1, 1)
            /\ SetFlag(u, "awaiting_game", "False")
       ELSE /\ out' = <<"reply:quest_stage">>
            /\ Note(u, 1, 0)
            /\ UNCHANGED <<user_achievements, user_stars, user_data>>

QuestAdvance(u, score, state, stage) ==
    /\ game_progress' =
           update_game_state(game_progress, u, score, Put(state, "stage", stage + 1))
    /\ save_game_result(u, "Quest", score)
    /\ NoWeatherRequest
        /\ UNCHANGED favorite_cities
    /\ IF stage + 1 >= QuestLen
       THEN /\ IF score >= AwardScore
               THEN /\ user_achievements' =
                           award_achievement(user_achievements, u, AchievementOf("Quest"))
                    /\ out' = <<"sticker", "reply:quest_master">>
                    /\ user_stars' = update_stars(user_stars, u, AwardStars)
                    /\ Note(u, 1, 1)
               ELSE /\ out' = <<"reply:quest_done">>
                    /\ Note(u, 1, 0)
                    /\ UNCHANGED <<user_achievements, user_stars>>
            /\ SetFlag(u, "awaiting_game", "False")
       ELSE /\ out' = <<"reply:quest_stage">>
            /\ Note(u, 1, 0)
            /\ UNCHANGED <<user_achievements, user_stars, user_data>>

\* faulty variant of QuestFail: a wrong choice leaves the quest open
QuestFail_Retry(u, score) ==
    /\ save_game_result(u, "Quest", score)
    /\ out' = <<"reply:quest_failed">>
    /\ NoWeatherRequest
    /\ UNCHANGED <<user_data, tables, session>>

QuestFail(u, score) ==
    /\ save_game_result(u, "Quest", score)
    /\ out' = <<"reply:quest_failed">>
    /\ SetFlag(u, "awaiting_game", "False")
    /\ NoWeatherRequest
    /\ UNCHANGED <<tables, session>>

QuestTurn(u, text) ==
    LET got == get_game_state(game_progress, u)
        stage == Get(got.state, "stage", 0)
    IN  IF got.game_name # "Quest" THEN NotPlaying(u, "reply:not_playing_quest")
        ELSE IF Converted[text].lower \in QuestAccepted /\ stage < QuestLen
             THEN QuestAdvance(u, got.score + ScoreStep, got.state, stage)
        ELSE QuestFail(u, got.score)

(***************************************************************************)
(* handle_message: Logic-Riddle ("Logic").                                 *)
(***************************************************************************)
\* faulty variant of LogicCorrect: reaching the award score does not end the game
LogicCorrect_KeepsPlaying(u, score, state, riddle_idx) ==
    /\ game_progress' =
           update_game_state(game_progress, u, score,
                             Put(state, "riddle_idx", (riddle_idx + 1) % RiddleCount))
    /\ save_game_result(u, "Logic", score)
    /\ NoWeatherRequest
    /\ UNCHANGED <<favorite_cities, user_data>>
    /\ IF score >= AwardScore
       THEN /\ user_achievements' =
                   award_achievement(user_achievements, u, AchievementOf("Logic"))
            /\ out' = <<"sticker", "reply:logic_master">>
            /\ user_stars' = update_stars(user_stars, u, AwardStars)
            /\ Note(u, 1, 1)
       ELSE /\ out' = <<"reply:logic_next_riddle">>
            /\ Note(u, 1, 0)
            /\ UNCHANGED <<user_achievements, user_stars>>

\* faulty variant of LogicCorrect: the result is saved only when the game ends
LogicCorrect_RowAtEndOnly(u, score, state, riddle_idx) ==
    /\ game_progress' =
           update_game_state(game_progress, u, score,
                             Put(state, "riddle_idx", (riddle_idx + 1) % RiddleCount))
    /\ NoWeatherRequest
    /\ UNCHANGED favorite_cities
    /\ IF score >= AwardScore
       THEN /\ save_game_result(u, "Logic", score)
            /\ user_achievements' =
                   award_achievement(user_achievements, u, AchievementOf("Logic"))
            /\ out' = <<"sticker", "reply:logic_master">>
            /\ user_stars' = update_stars(user_stars, u, AwardStars)
            /\ SetFlag(u, "awaiting_game", "False")
            /\ Note(u, 1, 1)
       ELSE /\ NoGameResult
            /\ out' = <<"reply:logic_next_riddle">>
            /\ Note(u, 1, 0)
            /\ UNCHANGED <<user_achievements, user_stars, user_data>>

LogicCorrect(u, score, state, riddle_idx) ==
    /\ game_progress' =
           update_game_state(game_progress, u, score,
                             Put(state, "riddle_idx", (riddle_idx + 1) % RiddleCount))
    /\ save_game_result(u, "Logic", score)
    /\ NoWeatherRequest
        /\ UNCHANGED favorite_cities
    /\ IF score >= AwardScore
       THEN /\ user_achievements' =
                   award_achievement(user_achievements, u, AchievementOf("Logic"))
            /\ out' = <<"sticker", "reply:logic_master">>
            /\ user_stars' = update_stars(user_stars, u, AwardStars)
            /\ SetFlag(u, "awaiting_game", "False")
            /\ Note(u, 1, 1)
       ELSE /\ out' = <<"reply:logic_next_riddle">>
            /\ Note(u, 1, 0)
            /\ UNCHANGED <<user_achievements, user_stars, user_data>>

\* faulty variant of LogicWrong: a wrong answer leaves the game open
LogicWrong_Retry(u, score) ==
    /\ save_game_result(u, "Logic", score)
    /\ out' = <<"reply:logic_wrong_answer">>
    /\ NoWeatherRequest
    /\ UNCHANGED <<user_data, tables, session>>

LogicWrong(u, score) ==
    /\ save_game_result(u, "Logic", score)
    /\ out' = <<"reply:logic_wrong_answer">>
    /\ SetFlag(u, "awaiting_game", "False")
    /\ NoWeatherRequest
    /\ UNCHANGED <<tables, session>>

LogicTurn(u, text) ==
    LET got == get_game_state(game_progress, u)
        riddle_idx == Get(got.state, "riddle_idx", 0)
    IN  IF got.game_name # "Logic" THEN NotPlaying(u, "reply:not_playing_logic")
        ELSE IF Converted[text].strip_lower = RiddleAnswer(riddle_idx)
             THEN LogicCorrect(u, got.score + ScoreStep, got.state, riddle_idx)
        ELSE LogicWrong(u, got.score)

(***************************************************************************)
(* handle_message: the session router.                                     *)
(***************************************************************************)
\* faulty variant of MenuTurn: only the game flag is dropped
MenuTurn_KeepsCityFlag(u) ==
    /\ out' = <<"reply:main_menu">>
    /\ SetFlag(u, "awaiting_game", "absent")
    /\ NoGameResult /\ NoWeatherRequest
    /\ UNCHANGED <<tables, session>>

\* text == "Меню": reply with the main menu, context.user_data.clear()
MenuTurn(u) ==
    /\ out' = <<"reply:main_menu">>
    /\ user_data' = [user_data EXCEPT ![u] = NoFlags]
    /\ NoGameResult /\ NoWeatherRequest
    /\ UNCHANGED <<tables, session>>

\* awaiting_city: forecast for text.strip(), log the request, clear the flag
\* faulty variant of WeatherTurn: the turn clears every flag
WeatherTurn_ClearsAll(u, text) ==
    /\ out' = <<"get_forecast", "reply:forecast">>
    /\ log_weather_request(u)
    /\ user_data' = [user_data EXCEPT ![u] = NoFlags]
    /\ NoGameResult
    /\ UNCHANGED <<tables, session>>

WeatherTurn(u, text) ==
    /\ out' = <<"get_forecast", "reply:forecast">>
    /\ log_weather_request(u)
    /\ SetFlag(u, "awaiting_city", "False")
    /\ NoGameResult
    /\ UNCHANGED <<tables, session>>

\* no branch of the if/elif chain matches: nothing is done
\* faulty variant of IgnoredTurn: an unrouted text is answered with the menu
IgnoredTurn_ShowsMenu ==
    /\ out' = <<"reply:main_menu">>
    /\ NoGameResult /\ NoWeatherRequest
    /\ UNCHANGED <<user_data, tables, session>>

IgnoredTurn ==
    /\ out' = <<>>
    /\ NoGameResult /\ NoWeatherRequest
    /\ UNCHANGED <<user_data, tables, session>>

handle_message(u, text) ==
    IF text = MenuText THEN MenuTurn(u)
    ELSE IF user_data[u].awaiting_city = "True" THEN WeatherTurn(u, text)
    ELSE IF user_data[u].awaiting_game = "Cities" THEN CitiesTurn(u, text)
    ELSE IF user_data[u].awaiting_game = "Guess" THEN GuessTurn(u, text)
    ELSE IF user_data[u].awaiting_game = "Quest" THEN QuestTurn(u, text)
    ELSE IF user_data[u].awaiting_game = "Logic" THEN LogicTurn(u, text)
    ELSE IgnoredTurn

(***************************************************************************)
(* handle_callback: the inline-button router.  Callback data is kept as    *)
(* its segments between underscores: "game_cities" is <<"game","cities">>. *)
(* The messages a button handler edits or sends are not part of the state. *)
(***************************************************************************)
Buttons ==
    {<<"weather">>, <<"admin">>, <<"favorite", "weather">>, <<"play">>,
     <<"game", "cities">>, <<"game", "guess">>, <<"game", "quest">>,
     <<"game", "logic">>, <<"main">>, <<"unknown">>}
    \cup SavePayloads

\* every button handler: no text turn's output, no row in the two logs
Pressed == out' = <<>> /\ NoGameResult /\ NoWeatherRequest

\* a button that only edits or sends messages
Show == Pressed /\ UNCHANGED <<user_data, tables, session>>

CbWeather(u) ==
    /\ Pressed
    /\ SetFlag(u, "awaiting_city", "True")
    /\ UNCHANGED <<tables, session>>

\* get_favorite_city: SELECT ... LIMIT 1, any of the user's rows
CbFavoriteWeather(u) ==
    IF favorite_cities[u] # {}
    THEN \E city \in favorite_cities[u] : Show
    ELSE /\ Pressed
         /\ SetFlag(u, "awaiting_city", "True")
         /\ UNCHANGED <<tables, session>>

\* city = query.data.split("_")[2]
CbSaveCity(u, data) ==
    /\ Pressed
    /\ favorite_cities' = save_favorite_city(favorite_cities, u, data[3])
    /\ UNCHANGED <<user_data, game_progress, user_achievements, user_stars, session>>

\* a game-start button: start_game, the game's first state, awaiting_game
\* faulty variant of StartGame: the row is started under another game's name
StartGame_WrongName(u, game, state) ==
    /\ Pressed
    /\ game_progress' =
           IF state = EmptyState
           THEN start_game(game_progress, u, "Quest")
           ELSE update_game_state(start_game(game_progress, u, "Quest"), u, 0, state)
    /\ SetFlag(u, "awaiting_game", game)
    /\ session' = [session EXCEPT ![u] = [scoring |-> 0, awards |-> 0]]
    /\ UNCHANGED <<user_achievements, user_stars, favorite_cities>>

StartGame(u, game, state) ==
    /\ Pressed
    /\ game_progress' =
           IF state = EmptyState
           THEN start_game(game_progress, u, game)
           ELSE update_game_state(start_game(game_progress, u, game), u, 0, state)
    /\ SetFlag(u, "awaiting_game", game)
    /\ session' = [session EXCEPT ![u] = [scoring |-> 0, awards |-> 0]]
    /\ UNCHANGED <<user_achievements, user_stars, favorite_cities>>

CbGameCities(u) == StartGame(u, "Cities", EmptyState)

CbGameGuess(u) ==
    \E target \in TargetDraws :
        StartGame(u, "Guess", Put(Put(EmptyState, "target", target), "attempts", 0))

\* From the last statement of the game_quest branch to the end of the "main"
\* branch (src lines 530-544) the source text is garbled: identifiers are
\* transliterated and statements doubled.  The three branches are read as the
\* statements they repeat, which follow the game_cities and game_guess branches.
CbGameQuest(u) == StartGame(u, "Quest", Put(EmptyState, "stage", 0))

CbGameLogic(u) == StartGame(u, "Logic", Put(EmptyState, "riddle_idx", 0))

\* the "main" button: show the main menu, context.user_data.clear()
CbMain(u) ==
    /\ Pressed
    /\ user_data' = [user_data EXCEPT ![u] = NoFlags]
    /\ UNCHANGED <<tables, session>>

handle_callback(u, data) ==
    IF data = <<"weather">> THEN CbWeather(u)
    ELSE IF data = <<"admin">> THEN Show
    ELSE IF data = <<"favorite", "weather">> THEN CbFavoriteWeather(u)
    ELSE IF Len(data) >= 3 /\ data[1] = "save" /\ data[2] = "city"
         THEN CbSaveCity(u, data)
    ELSE IF data = <<"play">> THEN Show
    ELSE IF data = <<"game", "cities">> THEN CbGameCities(u)
    ELSE IF data = <<"game", "guess">> THEN CbGameGuess(u)
    ELSE IF data = <<"game", "quest">> THEN CbGameQuest(u)
    ELSE IF data = <<"game", "logic">> THEN CbGameLogic(u)
    ELSE IF data = <<"main">> THEN CbMain(u)
    ELSE Show

\* /start: reply with the main menu
start(u) == Show

(***************************************************************************)
(* Specification: user 1 sends texts and presses buttons; every update is  *)
(* handled to completion before the next one.                              *)
(***************************************************************************)
WithinBounds(u) ==
    /\ user_stars'[u].stars <= AwardStars * MaxAwards
    /\ game_progress'[u].state.attempts <= MaxAttempts

\* updates are handled with every store call succeeding: no accessor call is
\* followed step by step
Message(u) ==
    \E text \in Texts : handle_message(u, text) /\ WithinBounds(u) /\ UNCHANGED call

Callback(u) == \E data \in Buttons : handle_callback(u, data) /\ UNCHANGED call

Command(u) == start(u) /\ UNCHANGED call

Next == \E u \in {Player} : Message(u) \/ Callback(u) \/ Command(u)

Spec == Init /\ [][Next]_vars

\* the runs of two users, whose updates arrive in any order: a few texts and
\* buttons (City-Chain, Quest, Logic-Riddle, weather, favorite city), sessions
\* of at most MaxPairTurns scoring turns
PairTexts ==
    {MenuText, ChainCity(1), DeadEnd, <<"d", "a">>, RiddleAnswer(0), <<"n", "e", "t">>}

PairButtons ==
    {<<"weather">>, <<"game", "cities">>, <<"game", "quest">>, <<"game", "logic">>,
     <<"main">>} \cup SavePayloads

CallbackPair(u) ==
    \E data \in PairButtons : handle_callback(u, data) /\ UNCHANGED call

MessagePair(u) ==
    \E text \in PairTexts :
        /\ handle_message(u, text)
        /\ WithinBounds(u)
        /\ game_progress'[u].score <= ScoreStep * MaxPairTurns
        /\ UNCHANGED call

NextPair == \E u \in Users : MessagePair(u) \/ CallbackPair(u) \/ Command(u)

SpecPair == Init /\ [][NextPair]_vars

\* the runs that keep the rows of game_results, up to MaxRows rows
MessageKept(u) == Message(u) /\ Len(game_results'.rows) <= MaxRows

NextResults == \E u \in {Player} : MessageKept(u) \/ Callback(u) \/ Command(u)

SpecResults == InitResults /\ [][NextResults]_vars

(***************************************************************************)
(* The store accessors step by step.  Each accessor is                     *)
(*     try:     conn = psycopg2.connect(DATABASE_URL)                      *)
(*              cursor = conn.cursor()                                     *)
(*              cursor.execute(...); conn.commit() or cursor.fetchone()    *)
(*     except Exception: log the error (a reading accessor returns its     *)
(*              default)                                                   *)
(*     finally: cursor.close(); conn.close()                               *)
(* and each of the three statements of the try block may raise.  A name    *)
(* that was never bound raises UnboundLocalError when it is read.          *)
(***************************************************************************)
Accessors ==
    {"log_weather_request", "save_favorite_city", "get_favorite_city", "start_game",
     "update_game_state", "get_game_state", "award_achievement", "get_stars",
     "update_stars", "save_game_result"}

\* what the except block returns; a writing accessor returns nothing (None)
SafeDefault(fn) ==
    CASE fn = "get_favorite_city" -> "None"
      [] fn = "get_game_state" -> "(None, 0, '{}')"
      [] fn = "get_stars" -> "0"
      [] OTHER -> "None"

\* a handler calls the accessor fn for user u
\* a step inside an accessor that touches no table
StoreFrame ==
    UNCHANGED <<user_data, tables, game_results, new_game_results,
                new_weather_requests, out, session>>

StoreCall(fn, u) ==
    /\ call.pc = "idle"
    /\ call' = [IdleCall EXCEPT !.fn = fn, !.user = u, !.pc = "connect"]
    /\ StoreFrame

\* conn = psycopg2.connect(DATABASE_URL): binds conn, or raises
Connect ==
    /\ call.pc = "connect"
    /\ \/ call' = [call EXCEPT !.conn = TRUE, !.pc = "cursor"]
       \/ call' = [call EXCEPT !.pc = "except"]
    /\ StoreFrame

\* cursor = conn.cursor(): binds cursor, or raises
OpenCursor ==
    /\ call.pc = "cursor"
    /\ \/ call' = [call EXCEPT !.cursor = TRUE, !.pc = "execute"]
       \/ call' = [call EXCEPT !.pc = "except"]
    /\ StoreFrame

\* SELECT stars ...; a missing row is inserted with 0 stars
get_stars(us, u) == IF us[u].present THEN us ELSE [us EXCEPT ![u] = [present |-> TRUE, stars |-> 0]]

\* the statement of call.fn is executed and committed, with the arguments
\* of one of the handlers' calls
Statement ==
    LET fn == call.fn
        u == call.user
    IN  /\ game_progress' =
               IF fn = "start_game" THEN start_game(game_progress, u, "Quest")
               ELSE IF fn = "update_game_state"
                    THEN update_game_state(game_progress, u, ScoreStep,
                                           Put(EmptyState, "stage", 1))
               ELSE game_progress
        /\ user_achievements' =
               IF fn = "award_achievement"
               THEN award_achievement(user_achievements, u, AchievementOf("Quest"))
               ELSE user_achievements
        /\ user_stars' =
               IF fn = "update_stars" THEN update_stars(user_stars, u, AwardStars)
               ELSE IF fn = "get_stars" THEN get_stars(user_stars, u)
               ELSE user_stars
        /\ favorite_cities' =
               IF fn = "save_favorite_city"
               THEN save_favorite_city(favorite_cities, u, "new")
               ELSE favorite_cities
        /\ IF fn = "save_game_result" THEN save_game_result(u, "Quest", ScoreStep)
           ELSE UNCHANGED <<new_game_results, game_results>>
        /\ IF fn = "log_weather_request" THEN log_weather_request(u)
           ELSE UNCHANGED new_weather_requests

\* the value a reading accessor returns from the try block
Fetched ==
    CASE call.fn = "get_favorite_city" ->
            IF favorite_cities[call.user] # {} THEN "city" ELSE "None"
      [] call.fn = "get_game_state" ->
            IF game_progress[call.user].present THEN "row" ELSE "(None, 0, '{}')"
      [] call.fn = "get_stars" -> "stars"
      [] OTHER -> "None"

\* cursor.execute(...) and conn.commit() or cursor.fetchone(): done, or raises
\* with nothing committed
Execute ==
    /\ call.pc = "execute"
    /\ \/ /\ Statement
          /\ user_stars'[call.user].stars <= AwardStars * MaxAwards
          /\ call' = [call EXCEPT !.ret = Fetched, !.pc = "finally"]
          /\ UNCHANGED <<user_data, out, session>>
       \/ /\ call' = [call EXCEPT !.pc = "except"]
          /\ StoreFrame

\* except Exception as e: logger.error(...), return the default
Except ==
    /\ call.pc = "except"
    /\ call' = [call EXCEPT !.failed = TRUE, !.ret = SafeDefault(call.fn),
                            !.pc = "finally"]
    /\ StoreFrame

\* finally: cursor.close(); conn.close()
Finally ==
    /\ call.pc = "finally"
    /\ call' = IF call.cursor
               THEN [call EXCEPT !.pc = "returned"]
               ELSE [call EXCEPT !.pc = "raised", !.exc = "UnboundLocalError",
                                 !.ret = "unset"]
    /\ StoreFrame

\* the call is over: the handler goes on, or the exception leaves it
Return ==
    /\ call.pc \in {"returned", "raised"}
    /\ call' = IdleCall
    /\ StoreFrame

NextStore ==
    \/ \E fn \in Accessors : \E u \in {Player} : StoreCall(fn, u)
    \/ Connect
    \/ OpenCursor
    \/ Execute
    \/ Except
    \/ Finally
    \/ Return

SpecStore == Init /\ [][NextStore]_vars

(***************************************************************************)
(* Vocabulary of the properties.                                           *)
(***************************************************************************)
\* the user the specification drives
Row(u) == game_progress[u]
Flags(u) == user_data[u]

\* the if/elif chain of handle_message sends a text other than "Меню" to game
RoutedToGame(u, game) ==
    Flags(u).awaiting_city # "True" /\ Flags(u).awaiting_game = game

(***************************************************************************)
(* C1: within one game session the achievement insert and the +10 point    *)
(* grant happen at most once, on exactly the turn on which the session's   *)
(* score goes from below 100 to 100 or more; no other step awards.         *)
(***************************************************************************)
Stars(us, u) == IF us[u].present THEN us[u].stars ELSE 0

\* the step grants points to u
AwardStep(u) == user_stars'[u] # user_stars[u]

\* the step is a scoring turn that takes u's score from below 100 to 100 or more
Crossing(u) ==
    /\ new_game_results'[u] # <<>>
    /\ Row(u).score < AwardScore
    /\ new_game_results'[u][1].score >= AwardScore

C1_Step ==
    \A u \in Users :
        /\ AwardStep(u) <=> Crossing(u)
        /\ AwardStep(u) =>
              /\ Stars(user_stars', u) = Stars(user_stars, u) + AwardStars
              /\ user_achievements'[u] =
                     user_achievements[u] \cup {AchievementOf(Row(u).game_name)}
              /\ session'[u].awards = session[u].awards + 1
        /\ ~AwardStep(u) =>
              /\ user_achievements'[u] = user_achievements[u]
              /\ session'[u].awards \in {0, session[u].awards}
        /\ session'[u].awards <= 1

C1_AwardOncePerSession == [][C1_Step]_vars

\* the tenth correct riddle answer of a session has just been rewarded
C1_Witness ==
    /\ out = <<"sticker", "reply:logic_master">>
    /\ session[Player].awards = 1
    /\ session[Player].scoring = 10
    /\ Stars(user_stars, Player) = AwardStars
    /\ AchievementOf("Logic") \in user_achievements[Player]

(***************************************************************************)
(* C2: in a City-Chain session used_cities holds no city twice, and every  *)
(* city in it after the first starts with the trailing playable letter of  *)
(* the city before it (the last character left once trailing 'ь'/'ъ' are   *)
(* stripped); a first turn (empty last_city) is accepted for any valid     *)
(* city, and a city already used is rejected.                              *)
(***************************************************************************)
\* the last character of c that is followed by soft and hard signs only
TrailingPlayable(c) ==
    LET letters == {i \in 1..Len(c) : c[i] \notin Signs}
    IN  IF letters = {} THEN ""
        ELSE c[CHOOSE i \in letters : \A j \in letters : j <= i]

\* the turn scored: a row with the score raised by 10, and either the game
\* state is as before (the user won) or the city and a reply city were added
CityAccepted(u, city) ==
    /\ new_game_results'[u] = <<[game_name |-> "Cities", score |-> Row(u).score + ScoreStep]>>
    /\ \/ game_progress'[u] = game_progress[u]
       \/ \E bot_city \in VALID_CITIES :
             /\ game_progress'[u].state.used_cities =
                    Row(u).state.used_cities \o <<city, bot_city>>
             /\ game_progress'[u].state.last_city = bot_city
             /\ game_progress'[u].score = Row(u).score + ScoreStep

CityRejected(u, tag) ==
    /\ out' = <<tag>>
    /\ new_game_results'[u] = <<>>
    /\ game_progress' = game_progress
    /\ user_data' = user_data

C2_CitiesChain ==
    \A u \in {Player} :
        LET used == Row(u).state.used_cities
        IN  Row(u).game_name = "Cities" =>
              /\ \A i, j \in 1..Len(used) : i < j => used[i] # used[j]
              /\ \A i \in 2..Len(used) : used[i][1] = TrailingPlayable(used[i - 1])
              /\ RoutedToGame(u, "Cities") =>
                    \A text \in Texts \ {MenuText} :
                        LET city == Converted[text].strip_lower
                        IN  /\ (Row(u).state.last_city = <<>> /\ city \in VALID_CITIES) =>
                                  /\ ENABLED handle_message(u, text)
                                  /\ ~ENABLED (handle_message(u, text) /\ ~CityAccepted(u, city))
                            /\ InSeq(city, used) =>
                                  ~ENABLED (handle_message(u, text)
                                            /\ ~CityRejected(u, "reply:cities_used"))

\* six cities are chained, one of them ending in soft and hard signs, and
\* the user has just named a city a second time
C2_Witness ==
    LET used == Row(Player).state.used_cities
    IN  /\ Row(Player).game_name = "Cities"
        /\ Len(used) >= 6
        /\ \E i \in 1..(Len(used) - 1) : used[i][Len(used[i])] \in Signs
        /\ out = <<"reply:cities_used">>

(***************************************************************************)
(* C3: a text that is exactly "Меню" is handled by the menu branch in      *)
(* every state: both flags are cleared, no engine and no weather lookup    *)
(* runs, and game progress, game results, achievements and points stay.    *)
(***************************************************************************)
MenuPost(u) ==
    /\ user_data'[u] = NoFlags
    /\ out' = <<"reply:main_menu">>
    /\ new_game_results'[u] = <<>>
    /\ new_weather_requests'[u] = 0
    /\ game_progress' = game_progress
    /\ user_achievements' = user_achievements
    /\ user_stars' = user_stars

C3_MenuAlwaysResets ==
    /\ ENABLED handle_message(Player, MenuText)
    /\ ~ENABLED (handle_message(Player, MenuText) /\ ~MenuPost(Player))

\* "Меню" was the text handled last, sent after a Number-Guessing game had scored
C3_Witness ==
    /\ out = <<"reply:main_menu">>
    /\ Flags(Player) = NoFlags
    /\ Row(Player).game_name = "Guess"
    /\ Row(Player).score > 0
    /\ new_weather_requests[Player] = 0

(***************************************************************************)
(* C4: in a Number-Guessing session a guess below the target gets the      *)
(* 'my number is larger' hint and a guess above it the 'my number is       *)
(* smaller' hint; each such guess adds exactly 1 to the persisted attempts *)
(* and leaves score and target as they were; attempts goes back to 0 only  *)
(* on a winning guess that draws a new target in 1..100, the score being   *)
(* raised by 10.                                                           *)
(***************************************************************************)
GuessMissed(u, tag) ==
    /\ out' = <<tag>>
    /\ game_progress'[u].state.attempts = Row(u).state.attempts + 1
    /\ game_progress'[u].state.target = Row(u).state.target
    /\ game_progress'[u].score = Row(u).score
    /\ game_progress'[u].game_name = "Guess"

GuessWon(u) ==
    /\ game_progress'[u].score = Row(u).score + ScoreStep
    /\ game_progress'[u].game_name = "Guess"
    /\ IF Row(u).score + ScoreStep >= AwardScore
       THEN /\ game_progress'[u].state.attempts = Row(u).state.attempts + 1
            /\ game_progress'[u].state.target = Row(u).state.target
       ELSE /\ game_progress'[u].state.attempts = 0
            /\ game_progress'[u].state.target \in TargetMin..TargetMax

GuessPost(u, guess) ==
    IF guess < Row(u).state.target THEN GuessMissed(u, "reply:number_is_larger")
    ELSE IF guess > Row(u).state.target THEN GuessMissed(u, "reply:number_is_smaller")
    ELSE GuessWon(u)

C4_GuessHints ==
    \A u \in {Player} :
        (RoutedToGame(u, "Guess") /\ Row(u).game_name = "Guess") =>
            \A text \in NumberTexts :
                Converted[text].int.ok =>
                    /\ ENABLED handle_message(u, text)
                    /\ ~ENABLED (handle_message(u, text)
                                 /\ ~GuessPost(u, Converted[text].int.val))

\* target 42: the guess 50 has just been answered with 'my number is smaller'
C4_Witness ==
    /\ Row(Player).game_name = "Guess"
    /\ Flags(Player).awaiting_game = "Guess"
    /\ Row(Player).state.target = 42
    /\ Row(Player).state.attempts = 1
    /\ out = <<"reply:number_is_smaller">>

(***************************************************************************)
(* C5: in a Logic-Riddle session each correct answer adds 10 to the score  *)
(* and moves riddle_idx to (riddle_idx + 1) mod 3, so the riddles come in  *)
(* the order 0, 1, 2, 0, ...; a wrong answer at any riddle_idx and score   *)
(* ends the session on that turn and changes neither the persisted score   *)
(* nor riddle_idx.                                                         *)
(***************************************************************************)
LogicPost(u, answer) ==
    IF answer = RiddleAnswer(Row(u).state.riddle_idx)
    THEN /\ game_progress'[u].score = Row(u).score + ScoreStep
         /\ game_progress'[u].state.riddle_idx = (Row(u).state.riddle_idx + 1) % RiddleCount
         /\ game_progress'[u].game_name = "Logic"
    ELSE /\ user_data'[u].awaiting_game \notin Games
         /\ game_progress' = game_progress
         /\ out' = <<"reply:logic_wrong_answer">>

C5_LogicCycle ==
    \A u \in {Player} :
        Row(u).game_name = "Logic" =>
            /\ Row(u).state.riddle_idx \in 0..(RiddleCount - 1)
            /\ Row(u).state.riddle_idx = (Row(u).score \div ScoreStep) % RiddleCount
            /\ RoutedToGame(u, "Logic") =>
                  \A text \in Texts \ {MenuText} :
                      /\ ENABLED handle_message(u, text)
                      /\ ~ENABLED (handle_message(u, text)
                                   /\ ~LogicPost(u, Converted[text].strip_lower))

\* after four correct answers (riddle_idx has wrapped) a wrong answer has
\* just ended the session
C5_Witness ==
    /\ Row(Player).game_name = "Logic"
    /\ Row(Player).score = 4 * ScoreStep
    /\ Row(Player).state.riddle_idx = 1
    /\ out = <<"reply:logic_wrong_answer">>
    /\ Flags(Player).awaiting_game = "False"

(***************************************************************************)
(* C6: in a Quest session stage reaches 3 only after exactly 3 accepted    *)
(* inputs from stage 0, each adding 1 to stage and 10 to score; any input  *)
(* that is not accepted ends the quest on that turn with stage and score   *)
(* unchanged, and no later text advances the stage.                        *)
(***************************************************************************)
QuestPost(u, lowered) ==
    IF lowered \in QuestAccepted /\ Row(u).state.stage < QuestLen
    THEN /\ game_progress'[u].state.stage = Row(u).state.stage + 1
         /\ game_progress'[u].score = Row(u).score + ScoreStep
         /\ game_progress'[u].game_name = "Quest"
         /\ session'[u].scoring = session[u].scoring + 1
         /\ (user_data'[u].awaiting_game = "Quest") <=> (Row(u).state.stage + 1 < QuestLen)
    ELSE /\ user_data'[u].awaiting_game \notin Games
         /\ game_progress' = game_progress
         /\ out' = <<"reply:quest_failed">>

C6_QuestStages ==
    \A u \in {Player} :
        Row(u).game_name = "Quest" =>
            /\ Row(u).state.stage \in 0..QuestLen
            /\ Row(u).score = ScoreStep * Row(u).state.stage
            /\ session[u].scoring = Row(u).state.stage
            /\ Row(u).state.stage = QuestLen => Flags(u).awaiting_game \notin Games
            /\ \A text \in Texts \ {MenuText} :
                  IF RoutedToGame(u, "Quest")
                  THEN /\ ENABLED handle_message(u, text)
                       /\ ~ENABLED (handle_message(u, text)
                                    /\ ~QuestPost(u, Converted[text].lower))
                  ELSE ~ENABLED (handle_message(u, text)
                                 /\ game_progress' # game_progress)

\* the quest has just failed at stage 2 on an input that is not accepted
C6_Witness ==
    /\ Row(Player).game_name = "Quest"
    /\ Row(Player).state.stage = 2
    /\ Row(Player).score = 2 * ScoreStep
    /\ out = <<"reply:quest_failed">>
    /\ Flags(Player).awaiting_game = "False"

\* the quest has just been completed
C6_Completed ==
    /\ Row(Player).game_name = "Quest"
    /\ Row(Player).state.stage = QuestLen
    /\ out = <<"reply:quest_done">>

(***************************************************************************)
(* C7: in every reachable state awaiting_city and awaiting_game are not    *)
(* both set.                                                               *)
(***************************************************************************)
C7_FlagsExclusive ==
    \A u \in Users :
        ~(Flags(u).awaiting_city = "True" /\ Flags(u).awaiting_game \in Games)

(***************************************************************************)
(* C8: when awaiting_city is set, a text other than "Меню" goes to the     *)
(* weather handler and to no game engine, also with awaiting_game set: the *)
(* turn logs one weather request, clears awaiting_city and leaves          *)
(* awaiting_game and the persisted game progress as they were, so that the *)
(* next text is handled by the game that is still active.                  *)
(***************************************************************************)
WeatherReply == <<"get_forecast", "reply:forecast">>

WeatherPost(u) ==
    /\ out' = WeatherReply
    /\ new_weather_requests'[u] = 1
    /\ new_game_results'[u] = <<>>
    /\ user_data'[u].awaiting_city = "False"
    /\ user_data'[u].awaiting_game = Flags(u).awaiting_game
    /\ UNCHANGED <<tables, session>>

\* the turn was handled by the engine of game: it read the game's row and
\* answered with one of the game's replies, and no weather request was logged
GameReplies(game) ==
    CASE game = "Cities" ->
            {"reply:cities_invalid", "reply:cities_used", "reply:cities_wrong_letter",
             "reply:cities_next", "reply:cities_won", "sticker"}
      [] game = "Guess" ->
            {"reply:guess_format_hint", "reply:number_is_larger",
             "reply:number_is_smaller", "reply:guess_won_new_number", "sticker"}
      [] game = "Quest" -> {"reply:quest_stage", "reply:quest_done", "reply:quest_failed"}
      [] game = "Logic" -> {"reply:logic_next_riddle", "reply:logic_wrong_answer", "sticker"}

GamePost(u, game) ==
    /\ out' # <<>>
    /\ out'[1] \in GameReplies(game)
    /\ new_weather_requests'[u] = 0

C8_WeatherFirst ==
    \A u \in {Player} : \A text \in Texts \ {MenuText} :
        /\ Flags(u).awaiting_city = "True" =>
              /\ ENABLED handle_message(u, text)
              /\ ~ENABLED (handle_message(u, text) /\ ~WeatherPost(u))
        /\ (out = WeatherReply /\ Flags(u).awaiting_game \in Games) =>
              /\ Flags(u).awaiting_city = "False"
              /\ Row(u).game_name = Flags(u).awaiting_game
              /\ ENABLED handle_message(u, text)
              /\ ~ENABLED (handle_message(u, text)
                           /\ ~GamePost(u, Flags(u).awaiting_game))

\* a weather turn has just been handled in the middle of a City-Chain
\* session that already has a bot reply
C8_Witness ==
    /\ out = WeatherReply
    /\ new_weather_requests[Player] = 1
    /\ Flags(Player).awaiting_city = "False"
    /\ Flags(Player).awaiting_game = "Cities"
    /\ Row(Player).score = ScoreStep

(***************************************************************************)
(* C9: every turn that ends a game (score reaching 100, City-Chain win     *)
(* with no bot reply, Quest completion or failure, wrong Logic answer)     *)
(* clears awaiting_game and keeps the GameProgress row, whose game_name    *)
(* still names the ended game; no operation deletes the row or nulls its   *)
(* game_name.                                                              *)
(***************************************************************************)
EndingReplies ==
    {"reply:cities_won", "reply:quest_done", "reply:quest_master",
     "reply:quest_failed", "reply:logic_wrong_answer"}

\* the step is a game turn of u that ends the game
GameEnds(u) ==
    /\ new_game_results'[u] # <<>>
    /\ \/ new_game_results'[u][1].score >= AwardScore
       \/ \E i \in 1..Len(out') : out'[i] \in EndingReplies

C9_Step ==
    \A u \in Users :
        /\ Row(u).present =>
              /\ game_progress'[u].present
              /\ game_progress'[u].game_name \in Games
        /\ GameEnds(u) =>
              /\ user_data'[u].awaiting_game \notin Games
              /\ Row(u).present
              /\ game_progress'[u].game_name = Row(u).game_name
              /\ new_game_results'[u][1].game_name = Row(u).game_name

C9_EndClearsFlagKeepsRow == [][C9_Step]_vars

\* a City-Chain session has just been won for lack of a bot reply
C9_Witness ==
    /\ out = <<"reply:cities_won">>
    /\ Flags(Player).awaiting_game = "False"
    /\ Row(Player).present
    /\ Row(Player).game_name = "Cities"

(***************************************************************************)
(* C10: on an accepted City-Chain turn for which no unused valid city      *)
(* starts with the trailing letter of the user's city, the final score     *)
(* (previous score + 10) is written to the GameProgress row, one           *)
(* GameResult row with that score is appended, the achievement and points  *)
(* are awarded if that score is 100 or more, and the game ends.            *)
(***************************************************************************)
\* the step is a City-Chain turn won by u for lack of a bot reply
CitiesWon(u) == out' # <<>> /\ out'[1] = "reply:cities_won"

C10_Step ==
    \A u \in {Player} :
        CitiesWon(u) =>
            /\ game_progress'[u].score = Row(u).score + ScoreStep
            /\ new_game_results'[u] =
                   <<[game_name |-> "Cities", score |-> Row(u).score + ScoreStep]>>
            /\ (Row(u).score + ScoreStep >= AwardScore) =>
                   /\ AchievementOf("Cities") \in user_achievements'[u]
                   /\ Stars(user_stars', u) = Stars(user_stars, u) + AwardStars
            /\ user_data'[u].awaiting_game \notin Games

C10_WinPersisted == [][C10_Step]_vars

\* what the turn does: the result row carries previous score + 10, the
\* GameProgress row is not written
C10_Observed_Step ==
    \A u \in {Player} :
        CitiesWon(u) =>
            /\ game_progress' = game_progress
            /\ new_game_results'[u] =
                   <<[game_name |-> "Cities", score |-> Row(u).score + ScoreStep]>>
            /\ user_data'[u].awaiting_game \notin Games

C10_Observed == [][C10_Observed_Step]_vars

(***************************************************************************)
(* C11: a rejected City-Chain turn (city not valid, city already used, or  *)
(* first letter different from the required one while last_city is not     *)
(* empty) changes nothing: score, last_city, used_cities, game results,    *)
(* achievements, points and awaiting_game are as before, the game is open. *)
(***************************************************************************)
RejectReplies ==
    {<<"reply:cities_invalid">>, <<"reply:cities_used">>, <<"reply:cities_wrong_letter">>}

CityRejectPost(u) ==
    /\ out' \in RejectReplies
    /\ new_game_results'[u] = <<>>
    /\ user_data'[u].awaiting_game = "Cities"
    /\ UNCHANGED <<user_data, tables, session>>

\* the claim's three cases of a rejected city
ToReject(u, city) ==
    \/ city \notin VALID_CITIES
    \/ InSeq(city, Row(u).state.used_cities)
    \/ /\ Row(u).state.last_city # <<>>
       /\ city[1] # TrailingPlayable(Row(u).state.last_city)

C11_RejectedCityChangesNothing ==
    \A u \in {Player} : \A text \in Texts \ {MenuText} :
        (RoutedToGame(u, "Cities") /\ ToReject(u, Converted[text].strip_lower)) =>
            /\ ENABLED handle_message(u, text)
            /\ ~ENABLED (handle_message(u, text) /\ ~CityRejectPost(u))

\* a city with the wrong first letter has just been rejected in a session
\* that had scored twice
C11_Witness ==
    /\ out = <<"reply:cities_wrong_letter">>
    /\ Flags(Player).awaiting_game = "Cities"
    /\ Row(Player).score = 2 * ScoreStep
    /\ Len(Row(Player).state.used_cities) = 4

(***************************************************************************)
(* C12: in a Number-Guessing session a text that does not parse as an      *)
(* integer gets the format hint only: target, attempts, score, game        *)
(* results and awaiting_game are unchanged, and the next text is handled   *)
(* by the Number-Guessing engine again.                                    *)
(***************************************************************************)
FormatHint == <<"reply:guess_format_hint">>

HintPost(u) ==
    /\ out' = FormatHint
    /\ new_game_results'[u] = <<>>
    /\ UNCHANGED <<user_data, tables, session>>

\* the turn was handled by the Number-Guessing engine
GuessEngine(u) ==
    /\ out' # <<>>
    /\ out'[1] \in GameReplies("Guess") \cup {"reply:guess_master"}
    /\ new_weather_requests'[u] = 0

C12_MalformedGuess ==
    \A u \in {Player} : \A text \in Texts \ {MenuText} :
        /\ (RoutedToGame(u, "Guess") /\ ~Converted[text].int.ok) =>
              /\ ENABLED handle_message(u, text)
              /\ ~ENABLED (handle_message(u, text) /\ ~HintPost(u))
        /\ out = FormatHint =>
              /\ RoutedToGame(u, "Guess")
              /\ ENABLED handle_message(u, text)
              /\ ~ENABLED (handle_message(u, text) /\ ~GuessEngine(u))

\* the hint has just been sent in a round that already counts one attempt
C12_Witness ==
    /\ out = FormatHint
    /\ Row(Player).game_name = "Guess"
    /\ Row(Player).state.attempts = 1
    /\ Row(Player).score = ScoreStep

(***************************************************************************)
(* C13: in a Quest session "вперёд" is an accepted continuation at stage 0 *)
(* only; at stages 1 and 2 the only accepted input is "да", and any other  *)
(* input there ends the quest in failure.                                  *)
(***************************************************************************)
Forward == <<"v", "p", "e", "r", "yo", "d">>
Yes == <<"d", "a">>

QuestFailedPost(u) ==
    /\ out' = <<"reply:quest_failed">>
    /\ user_data'[u].awaiting_game \notin Games
    /\ game_progress' = game_progress

QuestAdvancedPost(u) ==
    game_progress'[u].state.stage = Row(u).state.stage + 1

C13_ForwardOnlyAtStart ==
    \A u \in {Player} : \A text \in Texts \ {MenuText} :
        RoutedToGame(u, "Quest") =>
            LET lowered == Converted[text].lower
                stage == Row(u).state.stage
            IN  /\ ENABLED handle_message(u, text)
                /\ (stage = 0 /\ lowered = Forward) =>
                      ~ENABLED (handle_message(u, text) /\ ~QuestAdvancedPost(u))
                /\ (stage \in {1, 2} /\ lowered = Yes) =>
                      ~ENABLED (handle_message(u, text) /\ ~QuestAdvancedPost(u))
                /\ (stage \in {1, 2} /\ lowered # Yes) =>
                      ~ENABLED (handle_message(u, text) /\ ~QuestFailedPost(u))

(***************************************************************************)
(* C14: in a Logic-Riddle session a GameResult row is appended only on the *)
(* turn that ends the game; a correct answer that lets the game go on      *)
(* appends no row.                                                         *)
(***************************************************************************)
C14_Step ==
    \A u \in {Player} :
        (Row(u).game_name = "Logic" /\ new_game_results'[u] # <<>>) =>
            user_data'[u].awaiting_game \notin Games

C14_LogicRowOnlyAtEnd == [][C14_Step]_vars

\* as amended: every Logic-Riddle turn appends one row, a correct answer with
\* the raised score (the game going on below 100) and a wrong answer with
\* the score as it was
LogicRowPost(u, answer) ==
    IF answer = RiddleAnswer(Row(u).state.riddle_idx)
    THEN /\ new_game_results'[u] =
                <<[game_name |-> "Logic", score |-> Row(u).score + ScoreStep]>>
         /\ (user_data'[u].awaiting_game = "Logic")
                <=> (Row(u).score + ScoreStep < AwardScore)
    ELSE /\ new_game_results'[u] = <<[game_name |-> "Logic", score |-> Row(u).score]>>
         /\ user_data'[u].awaiting_game \notin Games

C14_LogicRowEveryTurn ==
    \A u \in {Player} : \A text \in Texts \ {MenuText} :
        RoutedToGame(u, "Logic") =>
            /\ ENABLED handle_message(u, text)
            /\ ~ENABLED (handle_message(u, text)
                         /\ ~LogicRowPost(u, Converted[text].strip_lower))

\* a correct answer has just been logged and the next riddle asked
C14_Witness ==
    /\ out = <<"reply:logic_next_riddle">>
    /\ new_game_results[Player] = <<[game_name |-> "Logic", score |-> 2 * ScoreStep]>>
    /\ Flags(Player).awaiting_game = "Logic"

(***************************************************************************)
(* C16: the persisted score of a user never decreases between one          *)
(* game-start press and the next, every change of it within a session is   *)
(* +10, and every game-start press sets it to 0.                           *)
(***************************************************************************)
GameButtons ==
    {<<"game", "cities">>, <<"game", "guess">>, <<"game", "quest">>, <<"game", "logic">>}

\* the step is a game-start press of u
StartPress(u) == \E data \in GameButtons : handle_callback(u, data)

C16_Step ==
    \A u \in {Player} :
        IF StartPress(u)
        THEN game_progress'[u].score = 0
        ELSE game_progress'[u].score \in {Row(u).score, Row(u).score + ScoreStep}

C16_ScoreMonotonic == [][C16_Step]_vars

\* City-Chain has just been started again after a session that reached 100
C16_Witness ==
    /\ Row(Player).game_name = "Cities"
    /\ Row(Player).score = 0
    /\ Flags(Player).awaiting_game = "Cities"
    /\ session[Player].scoring = 0
    /\ AchievementOf("Cities") \in user_achievements[Player]

(***************************************************************************)
(* C18: a game-start press in any state, also in the middle of another     *)
(* game, overwrites the user's GameProgress with that game, score 0 and    *)
(* the game's initial state (City-Chain: empty last_city, no used cities;  *)
(* Number-Guessing: target in 1..100, attempts 0; Quest: stage 0; Logic:   *)
(* riddle_idx 0) and sets awaiting_game to the game: the user has at most  *)
(* one active game.                                                        *)
(***************************************************************************)
GameOf(data) ==
    CASE data = <<"game", "cities">> -> "Cities"
      [] data = <<"game", "guess">> -> "Guess"
      [] data = <<"game", "quest">> -> "Quest"
      [] data = <<"game", "logic">> -> "Logic"

InitialState(game, state) ==
    CASE game = "Cities" ->
            /\ Get(state, "last_city", <<>>) = <<>>
            /\ Get(state, "used_cities", <<>>) = <<>>
      [] game = "Guess" ->
            /\ state.keys = {"target", "attempts"}
            /\ state.target \in TargetMin..TargetMax
            /\ state.attempts = 0
      [] game = "Quest" -> state.keys = {"stage"} /\ state.stage = 0
      [] game = "Logic" -> state.keys = {"riddle_idx"} /\ state.riddle_idx = 0

StartPost(u, game) ==
    /\ game_progress'[u].present
    /\ game_progress'[u].game_name = game
    /\ game_progress'[u].score = 0
    /\ InitialState(game, game_progress'[u].state)
    /\ user_data'[u].awaiting_game = game

C18_StartOverwrites ==
    \A u \in {Player} :
        /\ \A data \in GameButtons :
              /\ ENABLED handle_callback(u, data)
              /\ ~ENABLED (handle_callback(u, data) /\ ~StartPost(u, GameOf(data)))
        /\ Flags(u).awaiting_game \in Games =>
              Row(u).present /\ Row(u).game_name = Flags(u).awaiting_game

\* Quest has just been started over the row of a Number-Guessing game that
\* had reached 100
C18_Witness ==
    /\ Row(Player).game_name = "Quest"
    /\ Row(Player).score = 0
    /\ Row(Player).state.keys = {"stage"}
    /\ Flags(Player).awaiting_game = "Quest"
    /\ session[Player].scoring = 0
    /\ AchievementOf("Guess") \in user_achievements[Player]

(***************************************************************************)
(* C20: a text other than "Меню" that arrives while neither awaiting_city  *)
(* nor awaiting_game is set is ignored: no reply, and flags, game          *)
(* progress, game results, achievements and points are unchanged, even     *)
(* when the persisted game_name still names a game.                        *)
(***************************************************************************)
NothingAwaited(u) ==
    /\ Flags(u).awaiting_city \in {"absent", "False"}
    /\ Flags(u).awaiting_game \in {"absent", "False"}

IgnoredPost(u) ==
    /\ out' = <<>>
    /\ new_game_results'[u] = <<>>
    /\ new_weather_requests'[u] = 0
    /\ UNCHANGED <<user_data, tables, session>>

C20_UnroutedTextIgnored ==
    \A u \in {Player} : \A text \in Texts \ {MenuText} :
        NothingAwaited(u) =>
            /\ ENABLED handle_message(u, text)
            /\ ~ENABLED (handle_message(u, text) /\ ~IgnoredPost(u))

\* nothing is awaited after a weather lookup and a lost Logic-Riddle game,
\* the row still names the game, and the update handled last sent no reply
C20_Witness ==
    /\ Flags(Player).awaiting_city = "False"
    /\ Flags(Player).awaiting_game = "False"
    /\ Row(Player).game_name = "Logic"
    /\ Row(Player).score = ScoreStep
    /\ out = <<>>

(***************************************************************************)
(* C19: game results are append-only, and exactly one row is appended per  *)
(* turn that scores or ends a game: a rejected City-Chain turn, a          *)
(* non-winning or non-integer guess, a "Меню" turn, a weather turn and an  *)
(* ignored message append no row, and no operation changes or removes an   *)
(* existing row.                                                           *)
(***************************************************************************)
\* the step raises u's persisted score
Scores(u) == game_progress'[u].score = Row(u).score + ScoreStep

\* the step is a turn of an engine that closes u's game
Ends(u) ==
    /\ Flags(u).awaiting_game \in Games
    /\ user_data'[u].awaiting_game = "False"

\* replies of the turns that append nothing
NoRowReplies ==
    RejectReplies
    \cup {FormatHint, <<"reply:number_is_larger">>, <<"reply:number_is_smaller">>,
          <<"reply:main_menu">>, WeatherReply, <<>>}

C19_Step ==
    LET old == game_results.rows
        new == game_results'.rows
    IN  /\ Len(new) \in {Len(old), Len(old) + 1}
        /\ SubSeq(new, 1, Len(old)) = old
        /\ \A u \in {Player} :
              /\ (Len(new) = Len(old) + 1) <=> (Scores(u) \/ Ends(u))
              /\ (Len(new) = Len(old) + 1) =>
                    /\ new[Len(new)].user_id = u
                    /\ new[Len(new)].game_name = Row(u).game_name
                    /\ new[Len(new)].score \in {Row(u).score, Row(u).score + ScoreStep}
              /\ out' \in NoRowReplies => new = old

C19_ResultsAppendOnly == [][C19_Step]_vars

\* two rows of two games are in the table and a wrong guess has just been
\* answered without a row
C19_Witness ==
    /\ Len(game_results.rows) = 2
    /\ game_results.rows[1].game_name = "Quest"
    /\ game_results.rows[2] = [user_id |-> Player, game_name |-> "Guess", score |-> ScoreStep]
    /\ out = <<"reply:number_is_larger">>

(***************************************************************************)
(* C17: turns of different users are independent: a button press or text   *)
(* turn of user A leaves user B's flags, game progress, game results,      *)
(* achievements, favorite city and points unchanged, so that in every      *)
(* interleaving each user ends in the state their own turns alone lead to. *)
(***************************************************************************)
\* the step is an update of u
TurnOf(u) ==
    \/ \E text \in PairTexts : handle_message(u, text)
    \/ \E data \in PairButtons : handle_callback(u, data)
    \/ start(u)

\* the step leaves everything kept for v as it is and inserts no row for v
Untouched(v) ==
    /\ user_data'[v] = user_data[v]
    /\ game_progress'[v] = game_progress[v]
    /\ user_achievements'[v] = user_achievements[v]
    /\ user_stars'[v] = user_stars[v]
    /\ favorite_cities'[v] = favorite_cities[v]
    /\ new_game_results'[v] = <<>>
    /\ new_weather_requests'[v] = 0
    /\ session'[v] = session[v]

C17_Step == \A u \in Users : TurnOf(u) => \A v \in Users \ {u} : Untouched(v)

\* what a text of u leads to, read off u's own flags and row alone
OwnOutcome(u, text) ==
    LET c == Converted[text]
    IN  IF text = MenuText THEN MenuPost(u)
        ELSE IF Flags(u).awaiting_city = "True" THEN WeatherPost(u)
        ELSE IF Flags(u).awaiting_game = "Cities"
             THEN IF ToReject(u, c.strip_lower) THEN CityRejectPost(u)
                  ELSE CityAccepted(u, c.strip_lower)
        ELSE IF Flags(u).awaiting_game = "Guess"
             THEN IF c.int.ok THEN GuessPost(u, c.int.val) ELSE HintPost(u)
        ELSE IF Flags(u).awaiting_game = "Quest" THEN QuestPost(u, c.lower)
        ELSE IF Flags(u).awaiting_game = "Logic" THEN LogicPost(u, c.strip_lower)
        ELSE IgnoredPost(u)

C17_OwnStateDecides ==
    \A u \in Users : \A text \in PairTexts :
        /\ ENABLED handle_message(u, text)
        /\ ~ENABLED (handle_message(u, text) /\ ~OwnOutcome(u, text))

C15_StoreFailuresAbsorbed ==
    /\ call.pc # "raised"
    /\ (call.pc = "returned" /\ call.failed) => call.ret = SafeDefault(call.fn)

\* what the accessors do: a failure of execute, commit or fetch is absorbed
\* with the default; a failure of connect or of conn.cursor() ends in
\* UnboundLocalError, raised by the finally block
C15_Observed ==
    /\ call.pc = "raised" => (call.failed /\ ~call.cursor /\ call.exc = "UnboundLocalError")
    /\ (call.pc = "returned" /\ call.failed) =>
          (call.cursor /\ call.ret = SafeDefault(call.fn))
    /\ (call.pc = "returned" /\ ~call.failed) => call.exc = "none"

(***************************************************************************)
(* C21: with store calls succeeding and turns handled one at a time,       *)
(* whenever awaiting_game names a game the persisted game_name of the user *)
(* names the same game, so the 'you are not playing this game now'         *)
(* branches of the four engines are never taken.                           *)
(***************************************************************************)
NotPlayingReplies ==
    {"reply:not_playing_cities", "reply:not_playing_guess",
     "reply:not_playing_quest", "reply:not_playing_logic"}

NotPlayingTaken == out' # <<>> /\ out'[1] \in NotPlayingReplies

C21_FlagNamesRowGame ==
    \A u \in {Player} :
        /\ Flags(u).awaiting_game \in Games => Row(u).game_name = Flags(u).awaiting_game
        /\ \A text \in Texts : ~ENABLED (handle_message(u, text) /\ NotPlayingTaken)

\* Number-Guessing was started over a City-Chain game that had been won,
\* and two wrong guesses have been counted
C21_Witness ==
    /\ Flags(Player).awaiting_game = "Guess"
    /\ Row(Player).game_name = "Guess"
    /\ Row(Player).state.attempts = 2
    /\ AchievementOf("Cities") \in user_achievements[Player]

(***************************************************************************)
(* C22: the score of a Quest session never exceeds 30, so the              *)
(* 'score >= 100' branch at quest completion is unreachable: nothing       *)
(* awards "Мастер приключений" or grants points from Quest.                *)
(***************************************************************************)
QuestAwards(u) ==
    \/ user_stars'[u] # user_stars[u]
    \/ user_achievements'[u] # user_achievements[u]
    \/ \E i \in 1..Len(out') : out'[i] = "reply:quest_master"

C22_QuestNeverAwards ==
    \A u \in {Player} :
        /\ Row(u).game_name = "Quest" => Row(u).score <= ScoreStep * QuestLen
        /\ AchievementOf("Quest") \notin user_achievements[u]
        /\ RoutedToGame(u, "Quest") =>
              \A text \in Texts \ {MenuText} :
                  ~ENABLED (handle_message(u, text) /\ QuestAwards(u))

\* a quest has just been completed with 30 points by a user who holds the
\* points of another game, and nothing was granted for it
C22_Witness ==
    /\ out = <<"reply:quest_done">>
    /\ Row(Player).game_name = "Quest"
    /\ Row(Player).score = ScoreStep * QuestLen
    /\ Stars(user_stars, Player) = AwardStars
    /\ session[Player].awards = 0

(***************************************************************************)
(* C23: with store calls succeeding and turns handled one at a time, the   *)
(* persisted score of every user is a multiple of 10 between 0 and 100: no *)
(* engine accepts a scoring turn once the session's score has reached 100. *)
(***************************************************************************)
C23_ScoreRange ==
    \A u \in Users :
        /\ Row(u).score \in {ScoreStep * k : k \in 0..(AwardScore \div ScoreStep)}
        /\ Row(u).score = AwardScore => Flags(u).awaiting_game \notin Games
        /\ \A text \in Texts :
              ~ENABLED (handle_message(u, text) /\ game_progress'[u].score > AwardScore)

\* Number-Guessing has just reached 100 and was closed
C23_Witness ==
    /\ Row(Player).game_name = "Guess"
    /\ Row(Player).score = AwardScore
    /\ Flags(Player).awaiting_game = "False"
    /\ out = <<"sticker", "reply:guess_master">>

(***************************************************************************)
(* C24: while the persisted game is City-Chain, the number of used cities  *)
(* is 2 * (score / 10), every used city is a valid city, and last_city is  *)
(* empty exactly when used_cities is empty and is otherwise the last       *)
(* element of used_cities.                                                 *)
(***************************************************************************)
C24_CitiesStateShape ==
    \A u \in {Player} :
        Row(u).game_name = "Cities" =>
            LET used == Get(Row(u).state, "used_cities", <<>>)
                last_city == Get(Row(u).state, "last_city", <<>>)
            IN  /\ Len(used) = 2 * (Row(u).score \div ScoreStep)
                /\ \A i \in 1..Len(used) : used[i] \in VALID_CITIES
                /\ (last_city = <<>>) <=> (used = <<>>)
                /\ used # <<>> => last_city = used[Len(used)]

\* three cities of the user and three of the bot are in the chain
C24_Witness ==
    /\ Row(Player).game_name = "Cities"
    /\ Row(Player).score = 3 * ScoreStep
    /\ Len(Row(Player).state.used_cities) = 6
    /\ Row(Player).state.last_city = Row(Player).state.used_cities[6]
    /\ out = <<"reply:cities_next">>

(***************************************************************************)
(* C25: sessions are bounded in the turns their engine handles: a Quest    *)
(* session ends within 3 Quest turns and a Logic-Riddle session within 10  *)
(* Logic turns (every such turn scores or ends the game), a City-Chain     *)
(* session ends after at most 10 accepted turns; only wrong guesses and    *)
(* rejected cities can keep a session open indefinitely.                   *)
(***************************************************************************)
\* scoring turns after which a session that counts to 100 is over
MostTurns == AwardScore \div ScoreStep

TurnScores(u) == session'[u].scoring = session[u].scoring + 1
TurnEnds(u) == user_data'[u].awaiting_game \notin Games
\* the turn leaves the session open and counts nothing
TurnIdles(u) ==
    /\ user_data'[u] = user_data[u]
    /\ session'[u] = session[u]
    /\ game_progress'[u].score = Row(u).score

C25_SessionsBounded ==
    \A u \in {Player} :
        LET turns == session[u].scoring
        IN  /\ Flags(u).awaiting_game = "Quest" => turns < QuestLen
            /\ Flags(u).awaiting_game = "Logic" => turns < MostTurns
            /\ Flags(u).awaiting_game = "Cities" => turns < MostTurns
            /\ \A text \in Texts \ {MenuText} :
                  /\ (RoutedToGame(u, "Quest") \/ RoutedToGame(u, "Logic")) =>
                        ~ENABLED (handle_message(u, text)
                                  /\ ~(TurnScores(u) \/ TurnEnds(u)))
                  /\ RoutedToGame(u, "Cities") =>
                        ~ENABLED (handle_message(u, text)
                                  /\ ~(TurnScores(u) \/ CityRejectPost(u)))
            /\ RoutedToGame(u, "Guess") =>
                  \E text \in NumberTexts :
                      ENABLED (handle_message(u, text) /\ TurnIdles(u))
            /\ RoutedToGame(u, "Cities") =>
                  \E text \in CityTexts :
                      ENABLED (handle_message(u, text) /\ TurnIdles(u))

\* a City-Chain session is open after nine accepted turns
C25_Witness ==
    /\ Flags(Player).awaiting_game = "Cities"
    /\ session[Player].scoring = MostTurns - 1
    /\ Row(Player).score = AwardScore - ScoreStep

(***************************************************************************)
(* C26: no scoring turn's write is overwritten by a stale one, also when   *)
(* handlers of one user interleave at their await points: the persisted    *)
(* score always equals 10 * the number of scoring turns executed since the *)
(* last game start.                                                        *)
(***************************************************************************)
C26_ScoreCountsTurns ==
    \A u \in {Player} :
        Row(u).present => Row(u).score = ScoreStep * session[u].scoring

\* what holds: the count is off by one after a City-Chain win without bot
\* reply, whose score is logged and not written, and nowhere else
C26_Observed ==
    \A u \in {Player} :
        Row(u).present =>
            \/ Row(u).score = ScoreStep * session[u].scoring
            \/ /\ Row(u).score = ScoreStep * (session[u].scoring - 1)
               /\ Row(u).game_name = "Cities"
               /\ Flags(u).awaiting_game \notin Games

=============================================================================
